---- MODULE Spec2Model ----
(***************************************************************************)
(* A model of the blog application of src/main.py: the three tables        *)
(* (users, blog_posts, comments), the login session of each client, and    *)
(* one action per route.  A route handler is an operator that maps the     *)
(* request and the current tables to an outcome (the response and the      *)
(* tables after the request); the action of the route applies the outcome. *)
(* An outcome is a value computed from the state and the request, so the   *)
(* properties speak of the outcome of every request in every reachable     *)
(* state.  Requests run concurrently.  A handler that reads rows and       *)
(* writes later (show_post, delete_post) takes several steps: its lookup   *)
(* puts the request in inflight, its commit answers it, and other requests *)
(* run in between; the commit of delete_post is itself the reads of the    *)
(* flush and then its writes.  The other handlers write in one statement   *)
(* or never write what they read, and take one step.  A waiting request    *)
(* holds its post object by primary key, as the session of the request     *)
(* does.  Each request is one of its own: inflight is a bag, so requests   *)
(* that are equal in all they hold wait side by side and commit one by     *)
(* one.                                                                    *)
(* Template rendering, form-field validation and the hash primitive are    *)
(* outside src/: a POST here is a submission for which validate_on_submit  *)
(* is true, a GET (or an invalid POST) only renders the form, and status   *)
(* 200 means that the handler reached render_template.                     *)
(***************************************************************************)
EXTENDS Integers, Sequences, FiniteSets, Bags, TLC

VARIABLES users, blog_posts, comments, session, inflight

vars == <<users, blog_posts, comments, session, inflight>>

(* ------------------------------ bounds -------------------------------- *)

\* The comments table is capped at this many rows: a request that would
\* store one more is left out.
MaxComments == 1

\* Post ids stay within 1 .. MaxPostId: a request that would store a post
\* with a larger id is left out.  Requests name the ids 0 .. MaxPostId (no
\* row ever has id 0).
MaxPostId == 2

\* The server starts a thread for every request and sets no limit.  Here at
\* most this many requests are between their reads and their commit: a
\* request that would wait beside that many is left out.
MaxInFlight == 2

(* ------------------------------ inputs -------------------------------- *)

Clients == {"c1"}

Methods == {"GET", "POST"}

Emails == {"a@x", "b@x"}

Passwords == {"pw1", "pw2"}

Salts == {"s1"}

EmptyForm ==
    [email |-> "", password |-> "", name |-> <<>>, title |-> "",
     subtitle |-> "", body |-> "", img_url |-> "", comment_text |-> ""]

RegisterForms ==
    { [EmptyForm EXCEPT !.email = "a@x", !.password = "pw1", !.name = <<"a", "n", "n">>],
      [EmptyForm EXCEPT !.email = "b@x", !.password = "pw2", !.name = <<"j", "O", " ", "b">>] }

LoginForms ==
    { [EmptyForm EXCEPT !.email = e, !.password = p] : e \in Emails, p \in Passwords }

PostForms ==
    { [EmptyForm EXCEPT !.title = "t1", !.subtitle = "sub1", !.body = "body1", !.img_url = "img1"],
      [EmptyForm EXCEPT !.title = "t2", !.subtitle = "sub2", !.body = "body2", !.img_url = "img2"] }

CommentForms == { [EmptyForm EXCEPT !.comment_text = "hi"] }

Days == { [year |-> 2023, month |-> 1, day |-> 5] }

PostIds == 0 .. MaxPostId

\* Whether the database of DATABASE_URL enforces foreign keys: the default
\* SQLite connection does not, other engines do.
ForeignKeys == BOOLEAN

(* --------------------------- pure helpers ----------------------------- *)

Max(S) == CHOOSE x \in S : \A y \in S : y <= x

\* An Integer primary key on the default SQLite database: the new row gets
\* the largest id in use + 1 (1 in an empty table), and a refused insert
\* uses up no id.
NextId(rows) == IF rows = {} THEN 1 ELSE Max({r.id : r \in rows}) + 1

Upper(ch) ==
    CASE ch = "a" -> "A" [] ch = "b" -> "B" [] ch = "j" -> "J"
      [] ch = "n" -> "N" [] ch = "o" -> "O" [] OTHER -> ch

Lower(ch) ==
    CASE ch = "A" -> "a" [] ch = "B" -> "b" [] ch = "J" -> "j"
      [] ch = "N" -> "n" [] ch = "O" -> "o" [] OTHER -> ch

IsCased(ch) == Upper(ch) # ch \/ Lower(ch) # ch

\* str.title(): a cased character is upper-cased after an uncased one (or at
\* the start) and lower-cased after a cased one.
Title(s) ==
    [i \in 1 .. Len(s) |->
        IF i = 1 \/ ~IsCased(s[i - 1]) THEN Upper(s[i]) ELSE Lower(s[i])]

MonthName ==
    <<"January", "February", "March", "April", "May", "June", "July",
      "August", "September", "October", "November", "December">>

Pad2(n) == IF n < 10 THEN "0" \o ToString(n) ELSE ToString(n)

\* date.strftime("%B %d, %Y")
Strftime(d) == MonthName[d.month] \o " " \o Pad2(d.day) \o ", " \o ToString(d.year)

\* The hash primitive is opaque: a digest determined by the salt and the password.
Pbkdf2(salt, password) == <<"sha256", salt, password>>

generate_password_hash(password, salt) ==
    [method |-> "pbkdf2:sha256", salt |-> salt, digest |-> Pbkdf2(salt, password)]

\* Mutant: the digest is not compared.
check_password_hash_any(pwhash, password) == TRUE

check_password_hash(pwhash, password) == Pbkdf2(pwhash.salt, password) = pwhash.digest

(* ----------------------- rows and the session ------------------------- *)

User(id, email, password, name) ==
    [id |-> id, email |-> email, password |-> password, name |-> name]

BlogPost(id, author_id, title, subtitle, body, img_url, date) ==
    [id |-> id, author_id |-> author_id, title |-> title, subtitle |-> subtitle,
     date |-> date, body |-> body, img_url |-> img_url]

\* post_id 0 is NULL: the column is nullable.
Comment(id, author_id, post_id, text) ==
    [id |-> id, author_id |-> author_id, post_id |-> post_id, text |-> text]

\* Query.get: the set holding the row with this primary key, or {} (None).
load_user(user_id) == {u \in users : u.id = user_id}

BlogPost_get(post_id) == {p \in blog_posts : p.id = post_id}

\* session[c] = 0: no user id in the session of client c (anonymous).
current_user(c) == IF session[c] = 0 THEN {} ELSE load_user(session[c])

is_authenticated(c) == current_user(c) # {}

\* Mutant: users.email without the unique constraint.
users_email_unique_off(rows) == TRUE

\* unique=True on users.email and on blog_posts.title: the commit is refused
\* (IntegrityError) when two rows would hold the same value.
users_email_unique(rows) ==
    \A u1, u2 \in rows : u1.id # u2.id => u1.email # u2.email

blog_posts_title_unique(rows) ==
    \A p1, p2 \in rows : p1.id # p2.id => p1.title # p2.title

(* ------------------------------ outcomes ------------------------------ *)

\* The outcome of a request that changes nothing and renders a template.
\* context holds the rows the handler looked up.
Render(c, handler, template) ==
    [status |-> 200, template |-> template, location |-> "", flash |-> <<>>,
     error |-> "", trace |-> <<handler>>, context |-> {}, pending |-> {},
     users |-> users, blog_posts |-> blog_posts, comments |-> comments,
     user_id |-> session[c]]

Redirect(o, endpoint) ==
    [o EXCEPT !.status = 302, !.template = "", !.location = endpoint]

Flash(o, message) == [o EXCEPT !.flash = <<message>>]

\* An exception that leaves the handler: the session's pending changes are
\* discarded and the response is 500.
Raise(c, handler, exception) ==
    [Render(c, handler, "") EXCEPT !.status = 500, !.error = exception]

\* abort(code)
Abort(c, code) == [Render(c, "abort", "") EXCEPT !.status = code, !.trace = <<>>]

\* The handler has done its reads and not yet its writes: request r waits.
Suspend(o, r) == [o EXCEPT !.pending = {r}]

Traced(guard, o) == [o EXCEPT !.trace = <<guard>> \o @]

(* ------------------------------- guards ------------------------------- *)

\* flask_login.login_required: no login view is configured, so an anonymous
\* request is aborted with 401.
login_required(c, f) ==
    IF ~is_authenticated(c)
    THEN Traced("login_required", Abort(c, 401))
    ELSE Traced("login_required", f)

\* Mutant: the guard lets every authenticated user through.
admin_only_any_user(c, f) ==
    IF current_user(c) = {}
    THEN Traced("admin_only", Raise(c, "abort", "AttributeError"))
    ELSE Traced("admin_only", f)

\* The anonymous user object has no id attribute.
admin_only(c, f) ==
    IF current_user(c) = {}
    THEN Traced("admin_only", Raise(c, "abort", "AttributeError"))
    ELSE IF (CHOOSE u \in current_user(c) : TRUE).id # 1
         THEN Traced("admin_only", Abort(c, 403))
         ELSE Traced("admin_only", f)

(* ------------------------------ handlers ------------------------------ *)

get_all_posts(c) ==
    [Render(c, "get_all_posts", "index.html") EXCEPT !.context = blog_posts]

register(c, method, form, salt) ==
    IF method = "POST"
    THEN LET new_user == User(NextId(users), form.email,
                              generate_password_hash(form.password, salt),
                              Title(form.name))
         IN  IF users_email_unique(users \cup {new_user})
             THEN Redirect([Render(c, "register", "register.html") EXCEPT
                                !.users = users \cup {new_user},
                                !.user_id = new_user.id],
                           "get_all_posts")
             ELSE Raise(c, "register", "IntegrityError")
    ELSE Render(c, "register", "register.html")

login(c, method, form) ==
    IF method = "POST"
    THEN LET found == {u \in users : u.email = form.email}
         IN  IF found # {}
             THEN LET user == CHOOSE u \in found : TRUE
                  IN  IF check_password_hash(user.password, form.password)
                      THEN Redirect([Render(c, "login", "login.html") EXCEPT !.user_id = user.id],
                                    "get_all_posts")
                      ELSE Flash(Render(c, "login", "login.html"), "Invalid Password! Please try again.")
             ELSE Flash(Render(c, "login", "login.html"), "No user found! Please try again.")
    ELSE Render(c, "login", "login.html")

logout(c) ==
    Redirect([Render(c, "logout", "") EXCEPT !.user_id = 0], "get_all_posts")

\* The identity (primary key) of a post object that a request holds: the
\* writes of the request name the row by it, and after a commit the
\* attributes of the object are read from the table again.
Identity(post) == {p.id : p \in post}

\* The rows that the post object of waiting request r stands for now.
Reload(r) == {p \in blog_posts : p.id \in r.post}

\* Lines 192-198: the lookup of line 194, and whether a comment is to be
\* stored.  The post object read here is the one the comment is built from.
show_post(c, method, post_id, form) ==
    LET requested_post == BlogPost_get(post_id)
        page == [Render(c, "show_post", "post.html") EXCEPT !.context = requested_post]
    IN  IF method = "POST"
        THEN IF is_authenticated(c)
             THEN Suspend(page,
                          [op |-> "show_post", client |-> c, user_id |-> session[c],
                           form |-> form, post |-> Identity(requested_post),
                           flushed |-> FALSE, comment_ids |-> {}, trace |-> <<>>])
             ELSE Flash(page, "You need to login or register to comment.")
        ELSE page

\* Lines 199-209: the comment of request r gets the id of the post object
\* read at line 194 (NULL when there was none), also when that post has been
\* deleted since; a database that enforces foreign keys then refuses the
\* commit.
show_post_commit(r, foreign_keys) ==
    LET page == [Render(r.client, "show_post", "post.html") EXCEPT
                     !.context = Reload(r), !.trace = r.trace]
        parent == IF r.post = {} THEN 0 ELSE CHOOSE id \in r.post : TRUE
        new_comment == Comment(NextId(comments), r.user_id, parent,
                               r.form.comment_text)
    IN  IF foreign_keys /\ parent # 0 /\ BlogPost_get(parent) = {}
        THEN [Raise(r.client, "show_post", "IntegrityError") EXCEPT !.trace = r.trace]
        ELSE [page EXCEPT !.comments = comments \cup {new_comment}]

\* Mutant: subtitle and body are stored in each other's column.
add_new_post_swapped(c, method, form, today) ==
    IF method = "POST"
    THEN LET author == CHOOSE u \in current_user(c) : TRUE
             new_post == BlogPost(NextId(blog_posts), author.id, form.title,
                                  form.body, form.subtitle, form.img_url,
                                  Strftime(today))
         IN  IF blog_posts_title_unique(blog_posts \cup {new_post})
             THEN Redirect([Render(c, "add_new_post", "make-post.html") EXCEPT
                                !.blog_posts = blog_posts \cup {new_post}],
                           "get_all_posts")
             ELSE Raise(c, "add_new_post", "IntegrityError")
    ELSE Render(c, "add_new_post", "make-post.html")

add_new_post(c, method, form, today) ==
    IF method = "POST"
    THEN LET author == CHOOSE u \in current_user(c) : TRUE
             new_post == BlogPost(NextId(blog_posts), author.id, form.title,
                                  form.subtitle, form.body, form.img_url,
                                  Strftime(today))
         IN  IF blog_posts_title_unique(blog_posts \cup {new_post})
             THEN Redirect([Render(c, "add_new_post", "make-post.html") EXCEPT
                                !.blog_posts = blog_posts \cup {new_post}],
                           "get_all_posts")
             ELSE Raise(c, "add_new_post", "IntegrityError")
    ELSE Render(c, "add_new_post", "make-post.html")

\* Line 248 reads post.title, which fails when no post has the id.  On a
\* valid submission line 258 assigns a string (the user's name) to the
\* relationship attribute post.author; the assignment raises, the commit of
\* line 260 is never reached and the fields set before it are discarded.
edit_post(c, method, post_id, form) ==
    LET post == BlogPost_get(post_id)
    IN  IF post = {}
        THEN Raise(c, "edit_post", "AttributeError")
        ELSE IF method = "POST"
             THEN Raise(c, "edit_post", "AttributeError")
             ELSE [Render(c, "edit_post", "make-post.html") EXCEPT !.context = post]

\* The request that waits between the lookup of delete_post and the flush of
\* its commit: it holds the post object of line 270.
DeleteRequest(c, post_to_delete) ==
    [op |-> "delete_post", client |-> c, user_id |-> session[c],
     form |-> EmptyForm, post |-> Identity(post_to_delete),
     flushed |-> FALSE, comment_ids |-> {}, trace |-> <<>>]

\* Mutant: when no post has the id, the first post of the table is deleted.
delete_post_first(c, post_id) ==
    LET found == BlogPost_get(post_id)
        post_to_delete ==
            IF found = {} /\ blog_posts # {}
            THEN {CHOOSE p \in blog_posts : \A q \in blog_posts : p.id <= q.id}
            ELSE found
    IN  IF post_to_delete = {}
        THEN Raise(c, "delete_post", "UnmappedInstanceError")
        ELSE Suspend([Render(c, "delete_post", "") EXCEPT !.context = post_to_delete],
                     DeleteRequest(c, post_to_delete))

\* Lines 270-271: session.delete(None) raises UnmappedInstanceError; a post
\* that was found is marked as deleted in the session of the request.
delete_post(c, post_id) ==
    LET post_to_delete == BlogPost_get(post_id)
    IN  IF post_to_delete = {}
        THEN Raise(c, "delete_post", "UnmappedInstanceError")
        ELSE Suspend([Render(c, "delete_post", "") EXCEPT !.context = post_to_delete],
                     DeleteRequest(c, post_to_delete))

\* Line 272, the reads of the flush: the comments of the post object are
\* loaded from the table (relationship of line 116).
delete_post_flush(r) ==
    [r EXCEPT !.flushed = TRUE,
              !.comment_ids = {cm.id : cm \in {x \in comments : x.post_id \in r.post}}]

\* Line 272, the writes of the flush and the commit: post_id of the comments
\* read before is set to NULL (the relationship has no delete cascade) and
\* the row with the id of the post object is deleted; a DELETE that matches
\* no row (the post was deleted meanwhile) is no error.  A comment stored
\* since the read keeps the id, unless the database enforces foreign keys
\* and refuses the commit.
delete_post_commit(r, foreign_keys) ==
    LET id == CHOOSE i \in r.post : TRUE
        nulled == {IF cm.id \in r.comment_ids
                   THEN [cm EXCEPT !.post_id = 0] ELSE cm
                   : cm \in comments}
    IN  IF foreign_keys /\ BlogPost_get(id) # {} /\ \E cm \in nulled : cm.post_id = id
        THEN [Raise(r.client, "delete_post", "IntegrityError") EXCEPT !.trace = r.trace]
        ELSE Redirect([Render(r.client, "delete_post", "") EXCEPT
                           !.blog_posts = {p \in blog_posts : p.id # id},
                           !.comments = nulled,
                           !.trace = r.trace],
                      "get_all_posts")

\* The routes with their decorators, outermost first.
add_new_post_route(c, method, form, today) ==
    login_required(c, admin_only(c, add_new_post(c, method, form, today)))

edit_post_route(c, method, post_id, form) ==
    login_required(c, admin_only(c, edit_post(c, method, post_id, form)))

\* Mutant: the two decorators in the other order.
delete_post_route_swapped(c, post_id) ==
    admin_only(c, login_required(c, delete_post(c, post_id)))

delete_post_route(c, post_id) ==
    login_required(c, admin_only(c, delete_post(c, post_id)))

(* ------------------------------ actions ------------------------------- *)

\* The answer to a request of client c with outcome o: the tables and the
\* session after it, and the requests still waiting.
Respond(c, o, waiting) ==
    /\ users' = o.users
    /\ blog_posts' = o.blog_posts
    /\ comments' = o.comments
    /\ session' = [session EXCEPT ![c] = o.user_id]
    /\ inflight' = waiting

\* The waiting requests, told apart by what they hold.
Waiting == BagToSet(inflight)

\* The number of waiting requests of handler op.
WaitingFor(op) ==
    BagCardinality([r \in {w \in Waiting : w.op = op} |-> inflight[r]])

\* One request of client c with outcome o: it is answered, or it has done
\* its reads and waits for its commit, beside the requests already waiting.
Apply(c, o) ==
    IF o.pending = {}
    THEN Respond(c, o, inflight)
    ELSE /\ BagCardinality(inflight) < MaxInFlight
         /\ inflight' = inflight (+) SetToBag({[r EXCEPT !.trace = o.trace] : r \in o.pending})
         /\ UNCHANGED <<users, blog_posts, comments, session>>

\* The commit of waiting request r with outcome o.
Commit(r, o) == Respond(r.client, o, inflight (-) SetToBag({r}))

Init ==
    /\ users = {}
    /\ blog_posts = {}
    /\ comments = {}
    /\ session = [c \in Clients |-> 0]
    /\ inflight = EmptyBag

ReqGetAllPosts ==
    \E c \in Clients : Apply(c, get_all_posts(c))

ReqRegister ==
    \E c \in Clients, method \in Methods, form \in RegisterForms, salt \in Salts :
        Apply(c, register(c, method, form, salt))

ReqLogin ==
    \E c \in Clients, method \in Methods, form \in LoginForms :
        Apply(c, login(c, method, form))

ReqLogout ==
    \E c \in Clients : Apply(c, logout(c))

ReqShowPost ==
    \E c \in Clients, method \in Methods, post_id \in PostIds, form \in CommentForms :
        LET o == show_post(c, method, post_id, form)
        IN  /\ o.pending # {} => Cardinality(comments) + WaitingFor("show_post") < MaxComments
            /\ Apply(c, o)

ShowPostCommit ==
    \E r \in Waiting, foreign_keys \in ForeignKeys :
        /\ r.op = "show_post"
        /\ Commit(r, show_post_commit(r, foreign_keys))

ReqAddNewPost ==
    \E c \in Clients, method \in Methods, form \in PostForms, today \in Days :
        LET o == add_new_post_route(c, method, form, today)
        IN  /\ \A p \in o.blog_posts : p.id <= MaxPostId
            /\ Apply(c, o)

ReqEditPost ==
    \E c \in Clients, method \in Methods, post_id \in PostIds, form \in PostForms :
        Apply(c, edit_post_route(c, method, post_id, form))

ReqDeletePost ==
    \E c \in Clients, post_id \in PostIds :
        Apply(c, delete_post_route(c, post_id))

DeletePostFlush ==
    \E r \in Waiting :
        /\ r.op = "delete_post"
        /\ ~r.flushed
        /\ inflight' = (inflight (-) SetToBag({r})) (+) SetToBag({delete_post_flush(r)})
        /\ UNCHANGED <<users, blog_posts, comments, session>>

DeletePostCommit ==
    \E r \in Waiting, foreign_keys \in ForeignKeys :
        /\ r.op = "delete_post"
        /\ r.flushed
        /\ Commit(r, delete_post_commit(r, foreign_keys))

Next ==
    \/ ReqGetAllPosts
    \/ ReqRegister
    \/ ReqLogin
    \/ ReqLogout
    \/ ReqShowPost
    \/ ShowPostCommit
    \/ ReqAddNewPost
    \/ ReqEditPost
    \/ ReqDeletePost
    \/ DeletePostFlush
    \/ DeletePostCommit

Spec == Init /\ [][Next]_vars

(* ------------------- vocabulary of the properties --------------------- *)

AdminOps == {"add_new_post", "edit_post", "delete_post"}

\* The outcomes of every new-post, edit-post and delete-post request that
\* client c can send in the current state.
AdminOutcomes(c) ==
    {add_new_post_route(c, m, f, d) : m \in Methods, f \in PostForms, d \in Days}
    \cup {edit_post_route(c, m, id, f) : m \in Methods, id \in PostIds, f \in PostForms}
    \cup {delete_post_route(c, id) : id \in PostIds}

\* The body of the handler ran (the guards let the request through).
HandlerRan(o) == \E i \in DOMAIN o.trace : o.trace[i] \in AdminOps

\* Outcome o leaves the three tables as they are.
Untouched(o) ==
    /\ o.users = users
    /\ o.blog_posts = blog_posts
    /\ o.comments = comments

\* Outcome o is an answer (no wait) that leaves tables and session of c alone.
Refused(c, o) ==
    /\ o.pending = {}
    /\ Untouched(o)
    /\ o.user_id = session[c]

\* The expected text of each day, written out.
DayText(d) ==
    CASE d = [year |-> 2023, month |-> 1, day |-> 5] -> "January 05, 2023"
      [] d = [year |-> 2024, month |-> 11, day |-> 30] -> "November 30, 2024"

(* ------------------------------ C1 ------------------------------------ *)

\* C1: a new-post, edit-post or delete-post request runs its handler only
\* when the session is bound to the first-registered user, whose id is 1;
\* bound to any other registered user the request ends in 403 and leaves the
\* three tables unchanged.  User rows are never removed or changed and a new
\* row gets an id above all others, so the row with id 1 is the first one.
C1_OnlyFirstUserIsAdmin ==
    /\ [](\A c \in Clients : \A o \in AdminOutcomes(c) :
            /\ HandlerRan(o) =>
                  \E u \in current_user(c) :
                      u.id = 1 /\ \A v \in users : u.id <= v.id
            /\ (\E u \in current_user(c) : u.id # 1) =>
                  /\ o.status = 403
                  /\ ~HandlerRan(o)
                  /\ Refused(c, o))
    /\ [](\A r \in Waiting : r.op \in AdminOps => r.user_id = 1)
    /\ [][ /\ users \subseteq users'
           /\ \A u \in users' \ users : \A v \in users : v.id < u.id
           /\ (users = {} /\ users' # {}) => \A u \in users' : u.id = 1
         ]_vars

\* A second registered user is logged in, a post is stored, and the delete
\* route refuses that user.
C1_Witness ==
    /\ Cardinality(users) = 2
    /\ \E c \in Clients, p \in blog_posts :
          /\ session[c] = 2
          /\ delete_post_route(c, p.id).status = 403

(* ------------------------------ C2 ------------------------------------ *)

\* C2: a register submission with the email of an existing user creates no
\* row, binds the session to no new user, and ends in a handled failure (not
\* an unhandled storage error).
C2_DuplicateEmailHandled ==
    \A c \in Clients, form \in RegisterForms, salt \in Salts :
        (\E u \in users : u.email = form.email) =>
            LET o == register(c, "POST", form, salt)
            IN  /\ o.users = users
                /\ o.user_id = session[c]
                /\ o.status # 500
                /\ o.error = ""

(* ------------------------------ C3 ------------------------------------ *)

\* C3: a login submission with a registered email and a password that does
\* not verify flashes the invalid-password message; with an email of no user
\* it flashes the (different) no-user message; in both cases the session
\* binding stays as it was, the login form is rendered again and no table
\* changes.
C3_LoginFailures ==
    \A c \in Clients, form \in LoginForms :
        LET o == login(c, "POST", form)
            found == {u \in users : u.email = form.email}
            rerendered ==
                /\ o.status = 200
                /\ o.template = "login.html"
                /\ Refused(c, o)
        IN  /\ ( /\ found # {}
                 /\ \A u \in found :
                       Pbkdf2(u.password.salt, form.password) # u.password.digest )
               => /\ o.flash = <<"Invalid Password! Please try again.">>
                  /\ rerendered
            /\ found = {}
               => /\ o.flash = <<"No user found! Please try again.">>
                  /\ rerendered

\* One user is registered, nobody is logged in, and a login with that user's
\* email and another password is refused.
C3_Witness ==
    /\ Cardinality(users) = 1
    /\ \E c \in Clients, form \in LoginForms :
          /\ session[c] = 0
          /\ \E u \in users : u.email = form.email
          /\ login(c, "POST", form).flash = <<"Invalid Password! Please try again.">>

(* ------------------------------ C4 ------------------------------------ *)

\* C4: a valid comment submission on the detail view creates no row when
\* the session is anonymous (only the flash message).  When the session is
\* bound to a user the submission goes on to its commit with that user and
\* the post found for the requested id, and the commit creates exactly one
\* row: its author is that user, an existing one, its parent post is the
\* post of the requested id, an existing one, its text is the submitted
\* text.
C4_CommentNeedsLogin ==
    /\ \A c \in Clients, post_id \in PostIds, form \in CommentForms :
          LET o == show_post(c, "POST", post_id, form)
          IN  IF current_user(c) = {}
              THEN /\ Refused(c, o)
                   /\ o.flash = <<"You need to login or register to comment.">>
              ELSE /\ Untouched(o)
                   /\ o.flash = <<>>
                   /\ o.pending # {}
                   /\ \A r \in o.pending :
                         /\ r.op = "show_post"
                         /\ current_user(c) = {u \in users : u.id = r.user_id}
                         /\ r.form = form
                         /\ r.post = {p.id : p \in {q \in blog_posts : q.id = post_id}}
    /\ \A r \in Waiting, foreign_keys \in ForeignKeys :
          r.op = "show_post" =>
              LET o == show_post_commit(r, foreign_keys)
              IN  /\ o.users = users
                  /\ o.blog_posts = blog_posts
                  /\ \E cm \in o.comments :
                        /\ o.comments = comments \cup {cm}
                        /\ \A old \in comments : old.id # cm.id
                        /\ cm.author_id = r.user_id
                        /\ \E u \in users : u.id = cm.author_id
                        /\ r.post = {cm.post_id}
                        /\ \E p \in blog_posts : p.id = cm.post_id
                        /\ cm.text = r.form.comment_text

(* ------------------------------ C5 ------------------------------------ *)

\* C5: a valid edit submission by the admin on an existing post ends in the
\* redirect to the detail view, replaces title, subtitle, body and image URL
\* by the submitted values, makes the post's author show the editor's name,
\* and keeps id and date.
C5_EditReplacesFields ==
    \A c \in Clients, post_id \in PostIds, form \in PostForms :
        ( /\ \E u \in current_user(c) : u.id = 1
          /\ BlogPost_get(post_id) # {} )
        => LET o == edit_post_route(c, "POST", post_id, form)
           IN  /\ o.status = 302
               /\ o.location = "show_post"
               /\ \A old \in BlogPost_get(post_id) :
                     \E p \in o.blog_posts :
                        /\ p.id = old.id
                        /\ p.date = old.date
                        /\ p.title = form.title
                        /\ p.subtitle = form.subtitle
                        /\ p.body = form.body
                        /\ p.img_url = form.img_url
                        /\ \E a \in o.users : \E u \in current_user(c) :
                              a.id = p.author_id /\ a.name = u.name

(* ------------------------------ C6 ------------------------------------ *)

\* The outcome of a new-post submission by the admin with an unused title.
C6_Created ==
    \A c \in Clients, form \in PostForms, today \in Days :
        ( /\ \E u \in current_user(c) : u.id = 1
          /\ \A p \in blog_posts : p.title # form.title )
        => LET o == add_new_post_route(c, "POST", form, today)
           IN  /\ o.status = 302
               /\ o.pending = {}
               /\ o.users = users
               /\ o.comments = comments
               /\ \E p \in o.blog_posts :
                     /\ o.blog_posts = blog_posts \cup {p}
                     /\ \A old \in blog_posts : old.id # p.id
                     /\ p.title = form.title
                     /\ p.subtitle = form.subtitle
                     /\ p.body = form.body
                     /\ p.img_url = form.img_url
                     /\ \A u \in current_user(c) : p.author_id = u.id
                     /\ p.date = DayText(today)

\* A read of the detail view returns the stored row of the requested id.
C6_Read ==
    \A c \in Clients, post_id \in PostIds :
        LET o == show_post(c, "GET", post_id, EmptyForm)
        IN  /\ o.status = 200
            /\ Refused(c, o)
            /\ o.context = {p \in blog_posts : p.id = post_id}
            /\ Cardinality(o.context) <= 1

\* C6: a new-post submission by the admin with an unused title succeeds and
\* stores one row with the submitted title, subtitle, body and image URL, the
\* admin as author and the text of the day of the request as date; a stored
\* row stays as it is until the commit of a delete request for its id (an
\* edit request stores nothing); and a read of the detail view returns the
\* stored row of the requested id.
C6_CreateThenRead ==
    /\ [](C6_Created /\ C6_Read)
    /\ [][ \A p \in blog_posts :
              \/ p \in blog_posts'
              \/ \E r \in Waiting :
                    /\ CopiesIn(r, inflight') < CopiesIn(r, inflight)
                    /\ r.op = "delete_post"
                    /\ p.id \in r.post
         ]_vars

\* A post the admin created is stored with its date, and the detail view
\* reads it.
C6_Witness ==
    \E p \in blog_posts, c \in Clients :
        /\ p.author_id = 1
        /\ p.date = "January 05, 2023"
        /\ show_post(c, "GET", p.id, EmptyForm).context = {p}

(* ------------------------------ C7 ------------------------------------ *)

\* C7: a delete request by the admin for an id of no post is answered
\* without a wait and leaves the three tables unchanged, and a list-posts
\* request after it (the tables being what the delete request left)
\* succeeds and returns every stored post.
C7_DeleteMissingPost ==
    \A c \in Clients, post_id \in PostIds :
        ( /\ \E u \in current_user(c) : u.id = 1
          /\ \A p \in blog_posts : p.id # post_id )
        => LET o == delete_post_route(c, post_id)
               listing == get_all_posts(c)
           IN  /\ Refused(c, o)
               /\ listing.status = 200
               /\ listing.template = "index.html"
               /\ listing.context = o.blog_posts
               /\ listing.context = blog_posts
               /\ Refused(c, listing)

\* The admin is logged in, a post is stored, and a delete request for
\* another id fails on the missing post.
C7_Witness ==
    \E c \in Clients, post_id \in PostIds :
        /\ session[c] = 1
        /\ blog_posts # {}
        /\ \A p \in blog_posts : p.id # post_id
        /\ delete_post_route(c, post_id).error = "UnmappedInstanceError"

(* ------------------------------ C8 ------------------------------------ *)

\* C8: no two user rows have the same email (or id) and no two post rows the
\* same title (or id), in every reachable state, requests that wait between
\* their reads and their commit included; a register or new-post submission
\* that would store a used email or title leaves the tables unchanged, and
\* so does every edit-post submission, the one with the title of another
\* post among them.
C8_UniqueEmailAndTitle ==
    /\ \A u1, u2 \in users : (u1.email = u2.email \/ u1.id = u2.id) => u1 = u2
    /\ \A p1, p2 \in blog_posts : (p1.title = p2.title \/ p1.id = p2.id) => p1 = p2
    /\ \A c \in Clients, form \in RegisterForms, salt \in Salts :
          (\E u \in users : u.email = form.email)
          => Untouched(register(c, "POST", form, salt))
    /\ \A c \in Clients, form \in PostForms, today \in Days :
          (\E p \in blog_posts : p.title = form.title)
          => Untouched(add_new_post_route(c, "POST", form, today))
    /\ \A c \in Clients, form \in PostForms, post_id \in PostIds :
          Untouched(edit_post_route(c, "POST", post_id, form))

\* Two users and two posts are stored, the admin is logged in, and a
\* registration with a used email, a new post with a used title and an edit
\* of one post with the title of the other are each refused with the rows
\* as they were.
C8_Witness ==
    /\ Cardinality(users) = 2
    /\ Cardinality(blog_posts) = 2
    /\ \E c \in Clients :
          /\ session[c] = 1
          /\ \E form \in RegisterForms, salt \in Salts :
                register(c, "POST", form, salt).error = "IntegrityError"
          /\ \E form \in PostForms, today \in Days :
                add_new_post_route(c, "POST", form, today).error = "IntegrityError"
          /\ \E p1, p2 \in blog_posts, form \in PostForms :
                /\ p1.id # p2.id
                /\ form.title = p2.title
                /\ edit_post_route(c, "POST", p1.id, form).status = 500
                /\ Untouched(edit_post_route(c, "POST", p1.id, form))

(* ------------------------------ C9 ------------------------------------ *)

\* C9: every comment row references, when it is created, an existing user as
\* author and an existing post as parent; a comment submitted on an id of no
\* post creates no row.
C9_CommentReferencesExist ==
    [][ \A cm \in comments' :
          (\A old \in comments : old.id # cm.id)
          => /\ \E u \in users' : u.id = cm.author_id
             /\ \E p \in blog_posts' : p.id = cm.post_id
      ]_vars

(* ------------------------------ C10 ----------------------------------- *)

\* C10: on new-post, edit-post and delete-post an anonymous request is
\* rejected by the authentication guard (401): the admin guard is not
\* evaluated, the handler does not run, and tables and session stay as they
\* were.
C10_LoginGuardFirst ==
    \A c \in Clients :
        current_user(c) = {} =>
            \A o \in AdminOutcomes(c) :
                /\ o.status = 401
                /\ o.trace = <<"login_required">>
                /\ o.error = ""
                /\ Refused(c, o)

\* Nobody is logged in while users and a post are stored, and the edit
\* route turns the request away.
C10_Witness ==
    \E c \in Clients, p \in blog_posts, form \in PostForms :
        /\ session[c] = 0
        /\ users # {}
        /\ edit_post_route(c, "POST", p.id, form).status = 401

====
